---- MODULE Spec2Model ----
(***************************************************************************)
(* A model of the csv-parser package: parseCSV (the tokenizer, the shape   *)
(* check, header resolution and the projection of rows to records), toCsv  *)
(* (the serializer) and numberToCharacters (the column label of a cell     *)
(* reference).                                                             *)
(*                                                                         *)
(* A JavaScript string is a sequence of characters and a character is a    *)
(* TLA+ string.  Most characters are one character long; "toString",       *)
(* "[object", "Object]" and "[function" are runs of ordinary characters    *)
(* (no separator, no delimiter, no space, no line break) that the model    *)
(* never looks into.                                                       *)
(* Indices (i, c, currentCell, rowIdx, colIdx) are 0-based, as in the code.*)
(***************************************************************************)
EXTENDS Integers, Sequences, FiniteSets, TLC

VARIABLES call, ser, ref, driver

vars == <<call, ser, ref, driver>>

\* ------------------------------------------------------------------ bounds

\* Longest input text of a parse call, in characters.
MaxLen == 4

\* Largest column index handed to numberToCharacters.
MaxColumn == 800

\* Longest value of a record handed to toCsv, in characters, and the most
\* records of one call.
MaxCell == 1
MaxRecords == 2

\* Longest input text of a round trip, in characters.
MaxRoundTripLen == 6

\* The data rows a cell's metadata is made for.
MaxRow == 12

\* ------------------------------------------------------------- characters

LF == "\n"
CR == "\r"
DQ == "\""
SQ == "'"
SP == " "

\* ------------------------------------------------------------ JS values

Undefined == [type |-> "undefined"]
Null == [type |-> "null"]
Str(s) == [type |-> "string", chars |-> s]

\* The state of a promise.
Pending == [state |-> "pending"]
Resolved(v) == [state |-> "resolved", value |-> v]
Rejected(e) == [state |-> "rejected", error |-> e]

MalformedCSV == [name |-> "SyntaxError", message |-> "Malformed CSV"]
DataNotProvided == [name |-> "SyntaxError", message |-> "data not provided"]
\* What the engine throws on a property access of undefined.
TypeErrorOfUndefined == [name |-> "TypeError", message |-> "property of undefined"]

\* ------------------------------------------------------ numberToCharacters

characters ==
  << "A", "B", "C", "D", "E", "F", "G", "H", "I", "J", "K", "L", "M",
     "N", "O", "P", "Q", "R", "S", "T", "U", "V", "W", "X", "Y", "Z" >>

\* characters[k] for a 0-based k, joined: an index outside the string reads
\* undefined, which join('') writes as the empty string.
CharacterAt(k) == IF k >= 0 /\ k < Len(characters) THEN <<characters[k + 1]>> ELSE <<>>

\* The while loop: out.unshift(num % 26); num = Math.floor(num / 26).
RECURSIVE UnshiftDigits(_, _)
UnshiftDigits(num, out) ==
  IF num > 0 THEN UnshiftDigits(num \div 26, <<num % 26>> \o out) ELSE out

\* The map callback: every digit but the last is lowered by one.
MapDigit(it, idx, length) ==
  CharacterAt(IF length > 1 /\ idx < length - 1 THEN it - 1 ELSE it)

RECURSIVE JoinLetters(_, _)
JoinLetters(out, idx) ==
  IF idx >= Len(out) THEN <<>>
  ELSE MapDigit(out[idx + 1], idx, Len(out)) \o JoinLetters(out, idx + 1)

numberToCharacters(num) ==
  IF num = 1 THEN <<"A">> ELSE JoinLetters(UnshiftDigits(num - 1, <<>>), 0)

\* ------------------------------------------------------------ tokenizer

\* csv.split(/\r?\n/g): the lines of the text, the empty ones included.
RECURSIVE SplitFrom(_, _, _)
SplitFrom(text, p, line) ==
  IF p > Len(text) THEN <<line>>
  ELSE IF text[p] = LF THEN <<line>> \o SplitFrom(text, p + 1, <<>>)
  ELSE IF text[p] = CR /\ p < Len(text) /\ text[p + 1] = LF
    THEN <<line>> \o SplitFrom(text, p + 2, <<>>)
  ELSE SplitFrom(text, p + 1, Append(line, text[p]))

split(csv) == SplitFrom(csv, 1, <<>>)

\* A parse call as it enters the promise's executor.  result is the row of
\* cells that `const result = cells[i]` names: 0 when cells[i] is undefined,
\* else the 1-based place of that row in cells.
NewCall(csv, separator, header, stringDelimiter, callbacks) ==
  [ csv |-> csv, separator |-> separator, header |-> header,
    stringDelimiter |-> stringDelimiter, callbacks |-> callbacks,
    pc |-> "split", lines |-> <<>>, cells |-> <<>>, i |-> 0,
    result |-> 0, currentCell |-> 0, inString |-> FALSE, c |-> 0,
    headers |-> Undefined, rowIdx |-> 0, colIdx |-> 0, entries |-> <<>>,
    records |-> <<>>, invoked |-> <<>>, outcome |-> Pending ]

\* An exception inside the executor rejects the promise and ends the call.
Throw(m, e) == [m EXCEPT !.pc = "done", !.outcome = Rejected(e)]

SplitLines(m) == [m EXCEPT !.lines = split(m.csv), !.cells = <<>>, !.i = 0, !.pc = "line"]

Line(m) == m.lines[m.i + 1]
Char(m) == Line(m)[m.c + 1]

\* The outer loop's test fails: every line was read.
LinesDone(m) == [m EXCEPT !.pc = "shape"]

\* if (line === '') continue
SkipEmptyLine(m) == [m EXCEPT !.i = m.i + 1]

\* cells.push(['']); const result = cells[i]; currentCell = 0; inString = false
StartLine(m) ==
  LET pushed == Append(m.cells, << <<>> >>) IN
  [m EXCEPT !.cells = pushed,
            !.result = IF m.i + 1 <= Len(pushed) THEN m.i + 1 ELSE 0,
            !.currentCell = 0, !.inString = FALSE, !.c = 0, !.pc = "char"]

\* The inner loop's test fails: the outer loop moves to the next line.
EndLine(m) == [m EXCEPT !.i = m.i + 1, !.pc = "line"]

\* result[currentCell] += char, then the loop's ++c (skip more for c++).
AppendChar(m, char, skip) ==
  IF m.result = 0 THEN Throw(m, TypeErrorOfUndefined)
  ELSE [m EXCEPT !.cells[m.result][m.currentCell + 1] = Append(@, char),
                 !.c = m.c + 1 + skip]

\* incrementCell: result[++currentCell] = ''
incrementCell(m) ==
  IF m.result = 0 THEN Throw(m, TypeErrorOfUndefined)
  ELSE [m EXCEPT !.currentCell = m.currentCell + 1,
                 !.cells[m.result] = Append(@, <<>>),
                 !.c = m.c + 1]

\* case separator
OnSeparator(m) == IF m.inString THEN AppendChar(m, Char(m), 0) ELSE incrementCell(m)

\* line[c + 1] === stringDelimiter
NextIsDelimiter(m) ==
  m.c + 2 <= Len(Line(m)) /\ Line(m)[m.c + 2] = m.stringDelimiter

\* case stringDelimiter
OnDelimiter(m) ==
  IF m.inString /\ NextIsDelimiter(m) THEN AppendChar(m, Char(m), 1)
  ELSE [m EXCEPT !.inString = ~m.inString, !.c = m.c + 1]

\* default
OnDefault(m) == AppendChar(m, Char(m), 0)

\* cells.some(line => line.length !== cells[0].length)
NotRectangular(cells) == \E r \in 1..Len(cells) : Len(cells[r]) # Len(cells[1])

CheckShape(m) ==
  IF NotRectangular(m.cells) THEN Throw(m, MalformedCSV) ELSE [m EXCEPT !.pc = "header"]

\* ------------------------------------------------------- cell metadata

Digit(d) == << "0", "1", "2", "3", "4", "5", "6", "7", "8", "9" >>[d + 1]

\* `${n}` for a non-negative integer n.
RECURSIVE NumberToString(_)
NumberToString(n) ==
  IF n < 10 THEN <<Digit(n)>> ELSE NumberToString(n \div 10) \o <<Digit(n % 10)>>

csvCellMetadataFactory(columnIndex, columnName, rowIndex) ==
  [ columnIndex |-> columnIndex,
    columnName |-> columnName,
    rowIndex |-> rowIndex,
    cellReferenceA1 |-> numberToCharacters(columnIndex) \o NumberToString(rowIndex),
    cellReferenceRC |-> <<"R">> \o NumberToString(rowIndex) \o <<"C">> \o NumberToString(columnIndex) ]

\* ---------------------------------------------------------------- objects

\* An object is the sequence of its own properties, [key, value], in the
\* order Object.keys lists them: integer keys ascending, then the other
\* keys in the order they were created.
IsDigit(ch) == \E d \in 0..9 : ch = Digit(d)

IsIntegerKey(key) ==
  /\ Len(key) >= 1
  /\ \A p \in 1..Len(key) : IsDigit(key[p])
  /\ (Len(key) = 1 \/ key[1] # "0")

DigitValue(ch) == CHOOSE d \in 0..9 : ch = Digit(d)

RECURSIVE StringToNumber(_)
StringToNumber(key) ==
  IF Len(key) = 0 THEN 0
  ELSE 10 * StringToNumber(SubSeq(key, 1, Len(key) - 1)) + DigitValue(key[Len(key)])

HasOwn(obj, key) == \E p \in 1..Len(obj) : obj[p].key = key

\* Whether a new property `key` is listed before the property `other`.
ListedBefore(key, other) ==
  /\ IsIntegerKey(key)
  /\ (IsIntegerKey(other) => StringToNumber(key) < StringToNumber(other))

\* obj[key] = value, as CreateDataProperty does it.
DefineProperty(obj, key, value) ==
  IF HasOwn(obj, key)
    THEN [p \in 1..Len(obj) |-> IF obj[p].key = key THEN [key |-> key, value |-> value] ELSE obj[p]]
  ELSE LET before == {p \in 1..Len(obj) : ~ListedBefore(key, obj[p].key)}
           n == Cardinality(before)
       IN SubSeq(obj, 1, n) \o <<[key |-> key, value |-> value]>> \o SubSeq(obj, n + 1, Len(obj))

RECURSIVE FromEntriesFrom(_, _, _)
FromEntriesFrom(entries, p, obj) ==
  IF p > Len(entries) THEN obj
  ELSE FromEntriesFrom(entries, p + 1, DefineProperty(obj, entries[p].key, entries[p].value))

\* Object.fromEntries(entries)
FromEntries(entries) == FromEntriesFrom(entries, 1, <<>>)

ObjectKeys(obj) == [p \in 1..Len(obj) |-> obj[p].key]
ObjectValues(obj) == [p \in 1..Len(obj) |-> obj[p].value]

\* The names every object literal inherits from Object.prototype, as far as
\* the characters of the model spell them.
ObjectPrototypeKeys == { <<"toString">> }

\* The callbacks argument: an object literal whose own properties map a key
\* (a string; an index k is the key `${k}`) to the name of a function.
\* `key in callbacks` is true of own and of inherited properties.
In(key, callbacks) == key \in DOMAIN callbacks \/ key \in ObjectPrototypeKeys

\* callbacks[key]
Get(callbacks, key) ==
  IF key \in DOMAIN callbacks THEN callbacks[key] ELSE "Object.prototype.toString"

\* The functions a caller registers: each returns a value that records what
\* it was applied to, except the ones in Throwing, which throw, and
\* boomOnA, which throws when it is applied to the string a.
Throwing == { "boom" }
Throws(fn, str) == fn \in Throwing \/ (fn = "boomOnA" /\ str = Str(<<"a">>))
Returned(fn, str, metadata) ==
  IF fn = "Object.prototype.toString" THEN Str(<<"[object", SP, "Object]">>)
  ELSE [type |-> "returned", by |-> fn, str |-> str, metadata |-> metadata]
Thrown(fn) == [name |-> "Error", message |-> fn]

\* ------------------------------------------- header resolution, projection

HeaderTrue == [kind |-> "true"]
HeaderList(names) == [kind |-> "list", names |-> names]

\* const headers = header === true ? cells[0] : header
\* if (header === true) cells.shift()
ResolveHeader(m) ==
  IF m.header = HeaderTrue
    THEN [m EXCEPT !.headers = IF Len(m.cells) > 0 THEN m.cells[1] ELSE Undefined,
                   !.cells = IF Len(m.cells) > 0 THEN Tail(m.cells) ELSE <<>>,
                   !.pc = "project", !.rowIdx = 0, !.colIdx = 0]
  ELSE [m EXCEPT !.headers = m.header.names,
                 !.pc = "project", !.rowIdx = 0, !.colIdx = 0]

\* line[colIdx]
CellAt(m) ==
  LET line == m.cells[m.rowIdx + 1] IN
  IF m.colIdx + 1 <= Len(line) THEN Str(line[m.colIdx + 1]) ELSE Undefined

ColName(m) == m.headers[m.colIdx + 1]

\* The call of a function whose exception is caught and whose value is then
\* undefined: the projection goes on.
InvokeAndGoOn(m, key) ==
  LET fn == Get(m.callbacks, key)
      metadata == csvCellMetadataFactory(m.colIdx + 1, ColName(m), m.rowIdx + 1)
      called == [fn |-> fn, key |-> key, str |-> CellAt(m), metadata |-> metadata,
                 rowIdx |-> m.rowIdx, colIdx |-> m.colIdx]
      value == IF Throws(fn, CellAt(m)) THEN Undefined ELSE Returned(fn, CellAt(m), metadata)
  IN [m EXCEPT !.invoked = Append(@, called),
               !.entries = Append(@, [key |-> ColName(m), value |-> value]),
               !.colIdx = m.colIdx + 1]

\* callbacks[key](line[colIdx], csvCellMetadataFactory(colIdx + 1, colName, rowIdx + 1))
Invoke(m, key) ==
  LET fn == Get(m.callbacks, key)
      metadata == csvCellMetadataFactory(m.colIdx + 1, ColName(m), m.rowIdx + 1)
      called == [fn |-> fn, key |-> key, str |-> CellAt(m), metadata |-> metadata,
                 rowIdx |-> m.rowIdx, colIdx |-> m.colIdx]
  IN IF Throws(fn, CellAt(m))
       THEN Throw([m EXCEPT !.invoked = Append(@, called)], Thrown(fn))
     ELSE [m EXCEPT !.invoked = Append(@, called),
                    !.entries = Append(@, [key |-> ColName(m), value |-> Returned(fn, CellAt(m), metadata)]),
                    !.colIdx = m.colIdx + 1]

\* colName in callbacks ? callbacks[colName](...) : ...
ProjectByName(m) == Invoke(m, ColName(m))

\* colIdx in callbacks ? callbacks[colIdx](...) : ...
ProjectByIndex(m) == Invoke(m, NumberToString(m.colIdx))

\* : line[colIdx]
ProjectRaw(m) ==
  [m EXCEPT !.entries = Append(@, [key |-> ColName(m), value |-> CellAt(m)]),
            !.colIdx = m.colIdx + 1]

\* headers.map is done for this line: Object.fromEntries makes the record.
FinishRow(m) ==
  [m EXCEPT !.records = Append(@, FromEntries(m.entries)),
            !.entries = <<>>, !.rowIdx = m.rowIdx + 1, !.colIdx = 0]

\* cells.map is done: resolve(records)
Resolve(m) == [m EXCEPT !.pc = "done", !.outcome = Resolved(m.records)]

\* ------------------------------------------------------------------ toCsv

Arr(items) == [type |-> "array", items |-> items]
Fn(name) == [type |-> "function", name |-> name]
Date(iso) == [type |-> "date", iso |-> iso]

\* The cell of a value: '' for undefined and null, `[function ${name}]`,
\* toISOString() of a date, toString() of the rest.  (HTMLElement is not
\* defined where the package's tests run; no value of the model is one.)
Stringify(cell) ==
  IF cell = Undefined \/ cell = Null THEN <<>>
  ELSE IF cell.type = "function" THEN <<"[function", SP>> \o cell.name \o <<"]">>
  ELSE IF cell.type = "date" THEN cell.iso
  ELSE IF cell.type = "string" THEN cell.chars
  ELSE <<"[object", SP, "Object]">>

Includes(cell, ch) == \E p \in 1..Len(cell) : cell[p] = ch

\* cell.replace(new RegExp(stringDelimiter, 'g'), `${stringDelimiter}${stringDelimiter}`)
RECURSIVE ReplaceEach(_, _)
ReplaceEach(cell, stringDelimiter) ==
  IF Len(cell) = 0 THEN <<>>
  ELSE (IF Head(cell) = stringDelimiter THEN <<stringDelimiter, stringDelimiter>> ELSE <<Head(cell)>>)
       \o ReplaceEach(Tail(cell), stringDelimiter)

\* The cell as written: the test for the delimiter is cell.includes('"').
QuoteCell(cell, separator, stringDelimiter) ==
  IF Includes(cell, DQ)
    THEN <<stringDelimiter>> \o ReplaceEach(cell, stringDelimiter) \o <<stringDelimiter>>
  ELSE IF Includes(cell, SP) \/ Includes(cell, separator)
    THEN <<stringDelimiter>> \o cell \o <<stringDelimiter>>
  ELSE cell

\* strings.join(glue)
RECURSIVE Join(_, _)
Join(strings, glue) ==
  IF Len(strings) = 0 THEN <<>>
  ELSE IF Len(strings) = 1 THEN strings[1]
  ELSE strings[1] \o <<glue>> \o Join(Tail(strings), glue)

\* const csv = [Object.keys(data[0])], then one row of stringified values
\* per record.
CsvRows(items) ==
  <<ObjectKeys(items[1])>>
  \o [r \in 1..Len(items) |->
        [q \in 1..Len(items[r]) |-> Stringify(ObjectValues(items[r])[q])]]

CsvText(rows, separator, stringDelimiter) ==
  Join([r \in 1..Len(rows) |->
          Join([q \in 1..Len(rows[r]) |-> QuoteCell(rows[r][q], separator, stringDelimiter)],
               separator)],
       LF)

\* The test with its length check left out.
NotProvidedOnlyNull(data) == data = Null \/ data = Undefined

\* data == null || data.length === 0
NotProvided(data) == data = Null \/ data = Undefined \/ Len(data.items) = 0

\* The promise toCsv returns, settled.  Object.keys(data[0]) throws when
\* data[0] is undefined, and the executor's exception rejects the promise.
toCsv(data, separator, stringDelimiter) ==
  IF NotProvided(data) THEN Rejected(DataNotProvided)
  ELSE IF Len(data.items) = 0 THEN Rejected(TypeErrorOfUndefined)
  ELSE Resolved(CsvText(CsvRows(data.items), separator, stringDelimiter))

NewSer(data, separator, stringDelimiter) ==
  [ data |-> data, separator |-> separator, stringDelimiter |-> stringDelimiter,
    pc |-> "call", outcome |-> Pending ]

\* toCsv is an async function whose body is one promise: whatever happens
\* in the executor settles that promise, nothing is thrown to the caller.
RunToCsv(s) ==
  [s EXCEPT !.pc = "done", !.outcome = toCsv(s.data, s.separator, s.stringDelimiter)]

\* ------------------------------------------------- where a parse call is

AtSplit(m) == m.pc = "split"
AtLinesDone(m) == m.pc = "line" /\ m.i >= Len(m.lines)
AtEmptyLine(m) == m.pc = "line" /\ m.i < Len(m.lines) /\ Line(m) = <<>>
AtStartLine(m) == m.pc = "line" /\ m.i < Len(m.lines) /\ Line(m) # <<>>
AtEndLine(m) == m.pc = "char" /\ m.c >= Len(Line(m))
AtSeparator(m) == m.pc = "char" /\ m.c < Len(Line(m)) /\ Char(m) = m.separator
AtDelimiter(m) ==
  /\ m.pc = "char" /\ m.c < Len(Line(m))
  /\ Char(m) # m.separator /\ Char(m) = m.stringDelimiter
AtDefault(m) ==
  /\ m.pc = "char" /\ m.c < Len(Line(m))
  /\ Char(m) # m.separator /\ Char(m) # m.stringDelimiter
AtShape(m) == m.pc = "shape"
AtHeader(m) == m.pc = "header"
AtCell(m) == m.pc = "project" /\ m.rowIdx < Len(m.cells) /\ m.colIdx < Len(m.headers)
AtByName(m) == AtCell(m) /\ In(ColName(m), m.callbacks)
AtByIndex(m) ==
  AtCell(m) /\ ~In(ColName(m), m.callbacks) /\ In(NumberToString(m.colIdx), m.callbacks)
AtRaw(m) ==
  AtCell(m) /\ ~In(ColName(m), m.callbacks) /\ ~In(NumberToString(m.colIdx), m.callbacks)
AtFinishRow(m) == m.pc = "project" /\ m.rowIdx < Len(m.cells) /\ m.colIdx >= Len(m.headers)
AtResolve(m) == m.pc = "project" /\ m.rowIdx >= Len(m.cells)

\* One step of the executor of parseCSV's promise.
Step(m) ==
  CASE AtSplit(m) -> SplitLines(m)
    [] AtLinesDone(m) -> LinesDone(m)
    [] AtEmptyLine(m) -> SkipEmptyLine(m)
    [] AtStartLine(m) -> StartLine(m)
    [] AtEndLine(m) -> EndLine(m)
    [] AtSeparator(m) -> OnSeparator(m)
    [] AtDelimiter(m) -> OnDelimiter(m)
    [] AtDefault(m) -> OnDefault(m)
    [] AtShape(m) -> CheckShape(m)
    [] AtHeader(m) -> ResolveHeader(m)
    [] AtByName(m) -> ProjectByName(m)
    [] AtByIndex(m) -> ProjectByIndex(m)
    [] AtRaw(m) -> ProjectRaw(m)
    [] AtFinishRow(m) -> FinishRow(m)
    [] AtResolve(m) -> Resolve(m)

RECURSIVE Run(_)
Run(m) == IF m.pc = "done" THEN m ELSE Run(Step(m))

\* The promise parseCSV returns, settled.
parseCSV(csv, separator, header, stringDelimiter, callbacks) ==
  Run(NewCall(csv, separator, header, stringDelimiter, callbacks)).outcome

\* ---------------------------------------------------------------- actions

Idle == [pc |-> "idle"]
NoCallbacks == [key \in {} |-> "none"]

SplitStep == AtSplit(call) /\ call' = SplitLines(call) /\ UNCHANGED <<ser, ref, driver>>
LinesDoneStep == AtLinesDone(call) /\ call' = LinesDone(call) /\ UNCHANGED <<ser, ref, driver>>
SkipEmptyLineStep == AtEmptyLine(call) /\ call' = SkipEmptyLine(call) /\ UNCHANGED <<ser, ref, driver>>
StartLineStep == AtStartLine(call) /\ call' = StartLine(call) /\ UNCHANGED <<ser, ref, driver>>
EndLineStep == AtEndLine(call) /\ call' = EndLine(call) /\ UNCHANGED <<ser, ref, driver>>
SeparatorStep == AtSeparator(call) /\ call' = OnSeparator(call) /\ UNCHANGED <<ser, ref, driver>>
DelimiterStep == AtDelimiter(call) /\ call' = OnDelimiter(call) /\ UNCHANGED <<ser, ref, driver>>
DefaultStep == AtDefault(call) /\ call' = OnDefault(call) /\ UNCHANGED <<ser, ref, driver>>
CheckShapeStep == AtShape(call) /\ call' = CheckShape(call) /\ UNCHANGED <<ser, ref, driver>>
ResolveHeaderStep == AtHeader(call) /\ call' = ResolveHeader(call) /\ UNCHANGED <<ser, ref, driver>>
ProjectByNameStep == AtByName(call) /\ call' = ProjectByName(call) /\ UNCHANGED <<ser, ref, driver>>
ProjectByIndexStep == AtByIndex(call) /\ call' = ProjectByIndex(call) /\ UNCHANGED <<ser, ref, driver>>
ProjectRawStep == AtRaw(call) /\ call' = ProjectRaw(call) /\ UNCHANGED <<ser, ref, driver>>
FinishRowStep == AtFinishRow(call) /\ call' = FinishRow(call) /\ UNCHANGED <<ser, ref, driver>>
ResolveStep == AtResolve(call) /\ call' = Resolve(call) /\ UNCHANGED <<ser, ref, driver>>

\* toCsv, from the call to the settled promise.
ToCsvStep == ser.pc = "call" /\ ser' = RunToCsv(ser) /\ UNCHANGED <<call, ref, driver>>

\* numberToCharacters, from the call to the returned label.
LabelStep ==
  /\ ref.pc = "call"
  /\ ref' = [ref EXCEPT !.pc = "done", !.label = numberToCharacters(ref.num)]
  /\ UNCHANGED <<call, ser, driver>>

\* The caller of a round trip hands the records parseCSV resolved to toCsv,
\* with the separator and the delimiter of the parse.
PassRecords ==
  /\ driver.phase = "parse" /\ call.pc = "done" /\ call.outcome.state = "resolved"
  /\ ser' = NewSer(Arr(call.outcome.value), call.separator, call.stringDelimiter)
  /\ driver' = [phase |-> "serialize", first |-> call.outcome.value]
  /\ UNCHANGED <<call, ref>>

\* The caller hands the text toCsv resolved to parseCSV, options unchanged.
PassText ==
  /\ driver.phase = "serialize" /\ ser.pc = "done" /\ ser.outcome.state = "resolved"
  /\ call' = NewCall(ser.outcome.value, call.separator, call.header,
                     call.stringDelimiter, call.callbacks)
  /\ driver' = [driver EXCEPT !.phase = "reparse"]
  /\ UNCHANGED <<ser, ref>>

TokenizeNext ==
  \/ SplitStep \/ LinesDoneStep \/ SkipEmptyLineStep \/ StartLineStep \/ EndLineStep
  \/ SeparatorStep \/ DelimiterStep \/ DefaultStep

ParseNext ==
  \/ TokenizeNext
  \/ CheckShapeStep \/ ResolveHeaderStep
  \/ ProjectByNameStep \/ ProjectByIndexStep \/ ProjectRawStep
  \/ FinishRowStep \/ ResolveStep

\* ----------------------------------------------------------------- inputs

\* The texts of at most n characters over an alphabet.
Texts(alphabet, n) == UNION { [1..k -> alphabet] : k \in 0..n }

\* Calls that exercise the tokenizer: both separators and both delimiters in
\* the text, whichever of them the options name.
TokenizerInputs ==
  [ csv : Texts({"a", ",", ";", DQ, SQ, LF}, MaxLen),
    separator : {",", ";"},
    header : {HeaderTrue, HeaderList(<< <<"a">> >>)},
    stringDelimiter : {DQ, SQ},
    callbacks : {NoCallbacks} ]

\* The callbacks of a call: any of a function under the name a, one under
\* the index 0 and one under the index 1; or one that throws, under a or
\* under the index 1; or one under a that throws for some cells.
CallbackKeys == { <<"a">>, <<"0">>, <<"1">> }
FunctionAt(key) ==
  IF key = <<"a">> THEN "forA" ELSE IF key = <<"0">> THEN "forIndex0" ELSE "forIndex1"
CallbackMaps ==
  { [key \in keys |-> FunctionAt(key)] : keys \in SUBSET CallbackKeys }
  \cup { [key \in {<<"a">>} |-> "boom"], [key \in {<<"a">>} |-> "boomOnA"],
         [key \in {<<"1">>} |-> "boom"] }

\* Calls that exercise the projection: header names a, toString and the
\* empty name, or the names 1 and 0 for the columns 0 and 1, with and
\* without callbacks.
ProjectionInputs ==
  [ csv : Texts({"a", "toString", ",", LF}, MaxLen),
    separator : {","},
    header : {HeaderTrue, HeaderList(<< <<"a">>, <<"b">> >>),
              HeaderList(<< <<"1">>, <<"0">> >>)},
    stringDelimiter : {DQ},
    callbacks : CallbackMaps ]

StartCall(in) == NewCall(in.csv, in.separator, in.header, in.stringDelimiter, in.callbacks)

\* ---------------------------------------------------------- specifications

\* parseCSV, one call per behaviour.
Init ==
  /\ \E in \in TokenizerInputs \cup ProjectionInputs : call = StartCall(in)
  /\ ser = Idle
  /\ ref = Idle
  /\ driver = [phase |-> "parse"]

Next == ParseNext

Spec == Init /\ [][Next]_vars

\* The executor is one synchronous run of loops: a call that can take a
\* step takes it.
FairSpec == Init /\ [][Next]_vars /\ WF_vars(Next)

\* numberToCharacters, one call per behaviour.
InitLabel ==
  /\ \E num \in 1..MaxColumn : ref = [pc |-> "call", num |-> num, label |-> <<>>]
  /\ call = Idle
  /\ ser = Idle
  /\ driver = [phase |-> "label"]

NextLabel == LabelStep

SpecLabel == InitLabel /\ [][NextLabel]_vars

\* toCsv, one call per behaviour: no data, no records, or one or two
\* records with the key k or with the keys k' and j", created in either
\* order.
CellStrings == Texts({"a", ",", DQ, SQ, SP}, MaxCell)
CellValues == { Str(chars) : chars \in CellStrings } \cup { Null, Undefined }
Records ==
  { <<[key |-> <<"k">>, value |-> v]>> : v \in CellValues }
  \cup { <<[key |-> <<"k", SQ>>, value |-> v], [key |-> <<"j", DQ>>, value |-> Null]>> :
           v \in { Str(<<"a">>), Str(<<SQ>>), Fn(<<"f">>), Date(<<"2003-05-26T00:00:00.000Z">>) } }
  \cup { <<[key |-> <<"j", DQ>>, value |-> Null], [key |-> <<"k", SQ>>, value |-> v]>> :
           v \in { Str(<<"a">>), Str(<<SQ>>), Fn(<<"f">>), Date(<<"2003-05-26T00:00:00.000Z">>) } }
RecordLists == UNION { [1..n -> Records] : n \in 0..MaxRecords }

InitToCsv ==
  /\ \E data \in {Null, Undefined} \cup { Arr(items) : items \in RecordLists },
        separator \in {",", ";"}, stringDelimiter \in {DQ, SQ} :
       ser = NewSer(data, separator, stringDelimiter)
  /\ call = Idle
  /\ ref = Idle
  /\ driver = [phase |-> "serialize"]

NextToCsv == ToCsvStep

SpecToCsv == InitToCsv /\ [][NextToCsv]_vars

\* A round trip: parseCSV with header: true and no callbacks, toCsv of the
\* records it resolved, parseCSV of the text toCsv resolved.  With no
\* callbacks and no inherited name among the headers, a cell is never
\* projected through a function.
RoundTripInputs ==
  [ csv : Texts({SP, ",", DQ, SQ, LF}, MaxRoundTripLen),
    separator : {","},
    header : {HeaderTrue},
    stringDelimiter : {DQ, SQ},
    callbacks : {NoCallbacks} ]

InitRoundTrip ==
  /\ \E in \in RoundTripInputs : call = StartCall(in)
  /\ ser = Idle
  /\ ref = Idle
  /\ driver = [phase |-> "parse"]

NextRoundTrip ==
  \/ TokenizeNext
  \/ CheckShapeStep \/ ResolveHeaderStep \/ ProjectRawStep \/ FinishRowStep \/ ResolveStep
  \/ PassRecords \/ ToCsvStep \/ PassText

SpecRoundTrip == InitRoundTrip /\ [][NextRoundTrip]_vars

\* csvCellMetadataFactory, one call per behaviour: the arguments the
\* projection passes for a cell of column colIdx of data row rowIdx.
MetadataStep ==
  /\ ref.pc = "factory"
  /\ ref' = [ref EXCEPT !.pc = "made",
                        !.metadata = csvCellMetadataFactory(ref.colIdx + 1, ref.colName, ref.rowIdx + 1)]
  /\ UNCHANGED <<call, ser, driver>>

InitMetadata ==
  /\ \E colIdx \in 0..(MaxColumn - 1), rowIdx \in 0..(MaxRow - 1), colName \in {<<"a">>, <<>>} :
       ref = [pc |-> "factory", colIdx |-> colIdx, colName |-> colName, rowIdx |-> rowIdx,
              metadata |-> Undefined]
  /\ call = Idle
  /\ ser = Idle
  /\ driver = [phase |-> "metadata"]

NextMetadata == MetadataStep

SpecMetadata == InitMetadata /\ [][NextMetadata]_vars


\* ------------------------------------------------------------------ claims

Settled(m) == m.pc = "done"

\* The lines of a text that are not empty, in order.
NonEmptyLines(csv) == SelectSeq(split(csv), LAMBDA line : line # <<>>)

\* The text with its empty lines removed.
WithoutEmptyLines(csv) == Join(NonEmptyLines(csv), LF)

\* C1: parseCSV skips every fully empty line wherever it occurs: the outcome
\* of a call is the outcome of the same call on the text with its empty
\* lines removed.
C1_EmptyLinesSkipped ==
  Settled(call) =>
    call.outcome = parseCSV(WithoutEmptyLines(call.csv), call.separator, call.header,
                            call.stringDelimiter, call.callbacks)

\* The bijective base-26 label of n >= 1: A..Z, AA..AZ, BA.., ZZ, AAA.
RECURSIVE BijectiveLabel(_)
BijectiveLabel(n) ==
  IF n = 0 THEN <<>>
  ELSE BijectiveLabel((n - 1) \div 26) \o <<characters[((n - 1) % 26) + 1]>>

\* C2: for every column index n of 1..MaxColumn the label numberToCharacters
\* returns is the bijective base-26 label of n.
C2_BijectiveLabels ==
  ref.pc = "done" => ref.label = BijectiveLabel(ref.num)

\* The row the tokenizer makes of one non-empty line: the only row of the
\* grid of a call whose text is that line.
RECURSIVE RunTo(_, _)
RunTo(m, pc) == IF m.pc = pc \/ m.pc = "done" THEN m ELSE RunTo(Step(m), pc)
RowOf(line, separator, stringDelimiter) ==
  RunTo(NewCall(line, separator, HeaderTrue, stringDelimiter, NoCallbacks), "shape").cells[1]

\* The grid of a text: the row of each of its non-empty lines, in order.
GridOf(csv, separator, stringDelimiter) ==
  LET lines == NonEmptyLines(csv) IN
  [k \in 1..Len(lines) |-> RowOf(lines[k], separator, stringDelimiter)]

\* C3: a call on a text whose grid is not rectangular rejects with the
\* SyntaxError 'Malformed CSV', whatever the header option and wherever the
\* text has empty lines.
C3_NotRectangularRejected ==
  (Settled(call) /\ NotRectangular(GridOf(call.csv, call.separator, call.stringDelimiter)))
    => call.outcome = Rejected(MalformedCSV)

\* C4: round trip.  When parseCSV (header: true) resolves a text to records
\* R, toCsv(R) with the same separator and delimiter resolves to a text that
\* parseCSV resolves to records equal to R.  The formula states the claim
\* where nothing else stands in its way: for the R that toCsv takes (C10: it
\* rejects the empty list) and the texts of toCsv that have no empty line
\* (C1: parseCSV skips those, so a record whose only value is '' is lost).
C4_RoundTrip ==
  /\ (driver.phase = "serialize" /\ ser.pc = "done" /\ driver.first # <<>>)
       => ser.outcome.state = "resolved"
  /\ (driver.phase = "reparse" /\ Settled(call) /\ split(call.csv) = NonEmptyLines(call.csv))
       => call.outcome = Resolved(driver.first)

\* The cell as C5 has it written: by the configured delimiter.
ClaimedCell(cell, separator, stringDelimiter) ==
  IF Includes(cell, stringDelimiter)
    THEN <<stringDelimiter>> \o ReplaceEach(cell, stringDelimiter) \o <<stringDelimiter>>
  ELSE IF Includes(cell, SP) \/ Includes(cell, separator)
    THEN <<stringDelimiter>> \o cell \o <<stringDelimiter>>
  ELSE cell

ClaimedText(rows, separator, stringDelimiter) ==
  Join([r \in 1..Len(rows) |->
          Join([q \in 1..Len(rows[r]) |-> ClaimedCell(rows[r][q], separator, stringDelimiter)],
               separator)],
       LF)

\* C5: toCsv writes every stringified cell, the header's included, quoted by
\* the configured delimiter d and separator s: wrapped in d with every d
\* doubled when it contains d, else wrapped in d when it contains a space or
\* s, else bare; for d the double quote and for d the single quote.
C5_QuotedByDelimiter ==
  (ser.pc = "done" /\ ser.outcome.state = "resolved")
    => ser.outcome.value =
         ClaimedText(CsvRows(ser.data.items), ser.separator, ser.stringDelimiter)

\* The last row of the grid: the row of the line being read.
RowBeingRead(m) == m.cells[Len(m.cells)]

\* C6: a cell of a column that has a callback under its name and one under
\* its index is handed to the one under its name, once, and to no other; a
\* cell of a column with no entry under either key stays the raw string and
\* no function is called for it.
C6_CallbackPrecedence ==
  [][ AtCell(call) =>
        LET name == ColName(call)
            index == NumberToString(call.colIdx)
            own == DOMAIN call.callbacks
        IN /\ (name \in own /\ index \in own) =>
                /\ Len(call'.invoked) = Len(call.invoked) + 1
                /\ SubSeq(call'.invoked, 1, Len(call.invoked)) = call.invoked
                /\ call'.invoked[Len(call'.invoked)].key = name
                /\ call'.invoked[Len(call'.invoked)].fn = call.callbacks[name]
                /\ call'.invoked[Len(call'.invoked)].str = CellAt(call)
           /\ (name \notin own /\ index \notin own) =>
                /\ call'.invoked = call.invoked
                /\ call'.entries = Append(call.entries, [key |-> name, value |-> CellAt(call)])
    ]_vars

\* C7: a separator read inside a quoted string is appended to the current
\* cell of the line's row and starts no cell; a separator read outside
\* quotes leaves the cells as they are and starts an empty one.
C7_Separators ==
  [][ AtSeparator(call) =>
        LET row == RowBeingRead(call)
            after == RowBeingRead(call')
        IN IF call.inString
             THEN after = [row EXCEPT ![Len(row)] = Append(@, call.separator)]
           ELSE after = Append(row, <<>>)
    ]_vars

\* C8: inside a quoted string a delimiter followed by a delimiter appends one
\* delimiter to the current cell, consumes both characters and leaves the
\* quoted state; any other delimiter toggles the quoted state and appends
\* nothing.
C8_EscapedDelimiter ==
  [][ AtDelimiter(call) =>
        LET row == RowBeingRead(call)
            after == RowBeingRead(call')
        IN IF call.inString /\ NextIsDelimiter(call)
             THEN /\ after = [row EXCEPT ![Len(row)] = Append(@, call.stringDelimiter)]
                  /\ call'.c = call.c + 2
                  /\ call'.inString = call.inString
           ELSE /\ after = row
                /\ call'.c = call.c + 1
                /\ call'.inString = ~call.inString
    ]_vars

HasKey(record, key) == \E p \in 1..Len(record) : record[p].key = key
ValueOf(record, key) == record[CHOOSE p \in 1..Len(record) : record[p].key = key].value

\* C9: with header: true row 0 of the grid names the columns and the other
\* n-1 rows are the records; with a header list all n rows are.  Record k has
\* the names as its keys and is made of data row k: where no callback is
\* registered, the key of column j (the last column of that name) holds
\* that row's cell j.
C9_HeaderResolution ==
  (Settled(call) /\ call.outcome.state = "resolved") =>
    LET grid == GridOf(call.csv, call.separator, call.stringDelimiter)
        first == call.header = HeaderTrue
        names == IF ~first THEN call.header.names
                 ELSE IF Len(grid) > 0 THEN grid[1] ELSE <<>>
        rows == IF first /\ Len(grid) > 0 THEN Tail(grid) ELSE grid
        records == call.outcome.value
    IN /\ Len(records) = Len(rows)
       /\ \A k \in 1..Len(records) :
            /\ \A p \in 1..Len(records[k]) : \E j \in 1..Len(names) : records[k][p].key = names[j]
            /\ \A j \in 1..Len(names) : HasKey(records[k], names[j])
            /\ call.callbacks = NoCallbacks =>
                 \A j \in 1..Len(names) :
                   (\A later \in (j + 1)..Len(names) : names[later] # names[j]) =>
                     ValueOf(records[k], names[j]) =
                       IF j <= Len(rows[k]) THEN Str(rows[k][j]) ELSE Undefined

\* C10: toCsv rejects with the SyntaxError 'data not provided' when the
\* record array is null, undefined or empty; the promise is then rejected,
\* never resolved with a text.
C10_MissingInputRejected ==
  (ser.pc = "done" /\ (ser.data = Null \/ ser.data = Undefined \/ ser.data.items = <<>>))
    => ser.outcome = Rejected(DataNotProvided)

\* toCsv was called with an empty array and its promise is rejected.
C10_EmptyArrayRejected ==
  ser.pc = "done" /\ ser.data = Arr(<<>>) /\ ser.outcome.state = "rejected"

\* The metadata the projection owes the cell of column c of data row r
\* (both 0-based) under the column name `name`.
ClaimedMetadata(c, name, r) ==
  [ columnIndex |-> c + 1,
    columnName |-> name,
    rowIndex |-> r + 1,
    cellReferenceA1 |-> BijectiveLabel(c + 1) \o NumberToString(r + 1),
    cellReferenceRC |-> <<"R">> \o NumberToString(r + 1) \o <<"C">> \o NumberToString(c + 1) ]

\* C11: every function the projection calls for the cell of column c of
\* data row r (the header row not counted) gets that cell's raw string and
\* the metadata columnIndex c+1, rowIndex r+1, columnName the header of
\* column c, cellReferenceRC R{r+1}C{c+1} and cellReferenceA1 the bijective
\* label of c+1 followed by r+1; the metadata the factory makes for (c, r)
\* is that metadata for every column of 1..MaxColumn.
C11_CallbackArguments ==
  /\ call.pc # "idle" =>
       LET grid == GridOf(call.csv, call.separator, call.stringDelimiter)
           first == call.header = HeaderTrue
           names == IF first THEN grid[1] ELSE call.header.names
           rows == IF first THEN Tail(grid) ELSE grid
       IN \A p \in 1..Len(call.invoked) :
            LET v == call.invoked[p] IN
            /\ v.rowIdx + 1 <= Len(rows)
            /\ v.colIdx + 1 <= Len(names)
            /\ v.colIdx + 1 <= Len(rows[v.rowIdx + 1]) =>
                 v.str = Str(rows[v.rowIdx + 1][v.colIdx + 1])
            /\ v.metadata = ClaimedMetadata(v.colIdx, names[v.colIdx + 1], v.rowIdx)
  /\ (driver.phase = "metadata" /\ ref.pc = "made") =>
       ref.metadata = ClaimedMetadata(ref.colIdx, ref.colName, ref.rowIdx)

\* The line of the text that a row of cells makes.
RowText(cells, separator, stringDelimiter) ==
  Join([q \in 1..Len(cells) |-> QuoteCell(cells[q], separator, stringDelimiter)], separator)

\* C12: the text toCsv resolves has one line per record after the line of
\* the first record's keys, the lines joined by single newlines; the line
\* of every record that has the keys of the first record, created in
\* whatever order, holds as cell j the stringified value the record has
\* under the j-th key of the first record.
C12_ColumnAlignment ==
  (ser.pc = "done" /\ ser.outcome.state = "resolved") =>
    LET items == ser.data.items
        keys == ObjectKeys(items[1])
        lines == split(ser.outcome.value)
        SameKeys(record) ==
          { record[p].key : p \in 1..Len(record) } = { keys[j] : j \in 1..Len(keys) }
    IN /\ Len(lines) = Len(items) + 1
       /\ lines[1] = RowText(keys, ser.separator, ser.stringDelimiter)
       /\ \A r \in 1..Len(items) :
            SameKeys(items[r]) =>
              lines[r + 1] =
                RowText([j \in 1..Len(keys) |-> Stringify(ValueOf(items[r], keys[j]))],
                        ser.separator, ser.stringDelimiter)

\* C13: the shape check is reached with every line read and nothing
\* resolved or projected, so a call rejected as malformed has invoked no
\* function; a call settles once, from pending to resolved with a record
\* per data row or to rejected, and nothing happens after; a function that
\* throws is the last one invoked and the call is rejected with what it
\* threw, whatever records were made before; and every call settles.
C13_OrderedSettlement ==
  /\ [](call.pc = "shape" =>
          /\ call.i >= Len(call.lines)
          /\ call.headers = Undefined /\ call.invoked = <<>> /\ call.records = <<>>)
  /\ [](call.outcome = Rejected(MalformedCSV) =>
          /\ call.invoked = <<>> /\ call.headers = Undefined
          /\ NotRectangular(call.cells))
  /\ [](call.invoked # <<>> => ~NotRectangular(call.cells))
  /\ []((call.pc = "done") = (call.outcome # Pending))
  /\ [](call.outcome # Pending =>
          \/ call.outcome = Resolved(call.records) /\ call.rowIdx = Len(call.cells)
          \/ call.outcome.state = "rejected" /\ DOMAIN call.outcome = {"state", "error"})
  /\ [](\A p \in 1..Len(call.invoked) :
          Throws(call.invoked[p].fn, call.invoked[p].str) =>
            p = Len(call.invoked) /\ call.outcome = Rejected(Thrown(call.invoked[p].fn)))
  /\ [][call.outcome # Pending => call' = call]_vars
  /\ <>(call.outcome # Pending)

\* A function threw for a cell of the second data row, after the record of
\* the first was made, and the call is rejected with what it threw.
C13_ThrownAfterFirstRecord ==
  /\ call.pc = "done" /\ call.outcome = Rejected(Thrown("boomOnA"))
  /\ Len(call.records) >= 1 /\ Len(call.invoked) >= 2

\* C14: a function registered under the integer index k is called only
\* for cells of the column at position k, whatever the names of the
\* columns are.
C14_IndexCallbackOwnColumn ==
  call.pc # "idle" =>
    \A p \in 1..Len(call.invoked) :
      LET v == call.invoked[p] IN
      (v.key \in DOMAIN call.callbacks /\ IsIntegerKey(v.key)) =>
        StringToNumber(v.key) = v.colIdx

====
